---- MODULE Spec2Model ----
(***************************************************************************)
(* Model of src/app.py: the PDF extraction routines (pdf2image / PyMuPDF   *)
(* rasterizers, the PyMuPDF structured extractor and its blank-page        *)
(* filter), the pickle page-data store and the upload / page-fetch         *)
(* handlers working on the Flask session.                                  *)
(*                                                                         *)
(* Python dicts are functions whose DOMAIN is the set of present keys,     *)
(* lists are sequences, strings that are built by formatting are built     *)
(* with \o and ToString, texts are sequences of one-character strings.     *)
(***************************************************************************)
EXTENDS Integers, Sequences, FiniteSets, TLC

VARIABLES
  store,     \* DATA_FOLDER: pdf_id -> pickled blob (one <pdf_id>.pkl per key)
  files,     \* EXTRACTED_FOLDER: image path -> image written there
  uploads,   \* UPLOAD_FOLDER: filename -> the PDF saved under that name
  session,   \* per browser session: the Flask session dict
  req,       \* per browser session: position and locals of its upload request
  started,   \* number of upload requests accepted so far
  call,      \* the last direct call of a routine: function, arguments, result
  saves      \* the direct save_pdf_data calls made so far, in order

vars == <<store, files, uploads, session, req, started, call, saves>>

----------------------------------------------------------------------------
(* Bounds of the model *)

MaxPages == 2          \* pages of a PDF given directly to a rasterizer
MaxStructPages == 3    \* pages of a PDF given to the structured extractor
MaxTextLen == 21       \* longest page text given to the blank-page filter
MaxUploads == 2        \* upload requests served in one run
MaxSaves == 2          \* direct save_pdf_data calls in one run

Sessions == {"s1", "s2"}
Filenames == {"a.pdf", "b.pdf"}
UploadPageCounts == {1, 2}   \* page counts of the PDFs uploaded

----------------------------------------------------------------------------
(* Program constants *)

BlankTextLimit == 20       \* is_blank_page: len(text) > 20
LargeDocPages == 200       \* dpi / zoom / batch_size switch
FullDpi == 150
LowDpi == 100
FullZoom10 == 15           \* zoom 1.5, in tenths
LowZoom10 == 10            \* zoom 1.0, in tenths
SmallBatch == 50
LargeBatch == 100

\* the page rectangle of the modelled PDFs, in points
PageRect == [width |-> 612, height |-> 792]

EXTRACTED_FOLDER == "static/extracted"
DATA_FOLDER == "static/data"
UPLOAD_FOLDER == "static/uploads"

----------------------------------------------------------------------------
(* Python helpers *)

EmptyDict == <<>>
Put(d, k, v) == (k :> v) @@ d
Get(d, k, default) == IF k \in DOMAIN d THEN d[k] ELSE default
Min(a, b) == IF a < b THEN a ELSE b
Rep(c, n) == [i \in 1..n |-> c]
Range(q) == {q[i] : i \in DOMAIN q}

RECURSIVE lstrip(_)
lstrip(t) ==
  IF t = <<>> THEN <<>>
  ELSE IF Head(t) = " " THEN lstrip(Tail(t)) ELSE t

RECURSIVE rstrip(_)
rstrip(t) ==
  IF t = <<>> THEN <<>>
  ELSE IF t[Len(t)] = " " THEN rstrip(SubSeq(t, 1, Len(t) - 1)) ELSE t

strip(t) == rstrip(lstrip(t))

----------------------------------------------------------------------------
(* The blank-page filter *)

is_blank_page(page_content) ==
  LET text == strip(Get(page_content, "text", <<>>))
      images == Get(page_content, "images", <<>>)
      tables == Get(page_content, "tables", <<>>)
      elements == Get(page_content, "elements", <<>>)
      structured_text == Get(page_content, "structured_text", <<>>)
      has_content_elements == Len(elements) > 0
      has_structured_text == Len(structured_text) > 0
      has_media == (images # <<>> \/ tables # <<>>)
      has_substantial_text == (text # <<>> /\ Len(text) > BlankTextLimit)
      has_content == \/ has_content_elements
                     \/ has_structured_text
                     \/ has_media
                     \/ has_substantial_text
  IN  ~has_content

----------------------------------------------------------------------------
(* The PDFs given to the routines, and what the libraries make of them.    *)
(* A PDF is [tag, pages]: tag names its content (and so its metadata and   *)
(* every pixel rendered from it), pages is the sequence of its pages.      *)

PageCount(pdf) == Len(pdf.pages)

\* pdfplumber: pdf.metadata (keys capitalised; None without an Info dict)
PlumberMetadata(pdf) ==
  IF pdf.tag = 0 THEN EmptyDict ELSE [Title |-> "Doc " \o ToString(pdf.tag)]

\* PyMuPDF: doc.metadata (lower-case keys, '' for a missing entry)
FitzMetadata(pdf) ==
  [title |-> IF pdf.tag = 0 THEN "" ELSE "Doc " \o ToString(pdf.tag)]

\* pdf2image: the PIL image of page n at the given dpi
Pdf2Image(pdf, n, dpi) ==
  [pix |-> <<pdf.tag, n>>,
   width |-> (PageRect.width * dpi) \div 72,
   height |-> (PageRect.height * dpi) \div 72]

\* PyMuPDF: page.get_pixmap(matrix=Matrix(zoom, zoom)) of page n
FitzPixmap(pdf, n, zoom10) ==
  [pix |-> <<pdf.tag, n>>,
   width |-> (PageRect.width * zoom10) \div 10,
   height |-> (PageRect.height * zoom10) \div 10]

page_path(n) == EXTRACTED_FOLDER \o "/page_" \o ToString(n) \o ".jpg"

\* a rasterized page that carried the page's text
RasterPageWithText(n, img) ==
  [page_number |-> n, image_path |-> page_path(n), width |-> img.width,
   height |-> img.height, text |-> <<"a">>, type |-> "image"]

RasterPage(n, img) ==
  [page_number |-> n, image_path |-> page_path(n), width |-> img.width,
   height |-> img.height, text |-> <<>>, type |-> "image"]

\* content['total_pages'] = len(content['pages']), the last statement of
\* every extraction routine; until then total_pages is the PDF's page count
\* (the routine without its last statement)
recount_skipped(content) == content

recount(content) == [content EXCEPT !.total_pages = Len(content.pages)]

\* what a routine hands back: a returned value, or a raised exception
Return(content, fs) == [exc |-> FALSE, content |-> content, files |-> fs]
Raise(cause, fs) == [exc |-> TRUE, cause |-> cause, files |-> fs]

ImportErrorPdf2Image == "No module named 'pdf2image'"
PlumberError == "pdfplumber: cannot open PDF"
ImportErrorFitz == "PyMuPDF (fitz) is not available"
FitzOpenError == "fitz: cannot open document"

----------------------------------------------------------------------------
(* Which library calls raise during one run (the environment's choice).    *)
(*   imp    the import of pdf2image succeeds                               *)
(*   meta   pdfplumber opens the PDF and reads metadata and page count     *)
(*   batch  for the batch starting at start_page, the number of its pages  *)
(*          converted and appended before convert_from_path / image.save   *)
(*          raised; the size of the batch when nothing raised              *)
(*   fitz   the fitz module was importable                                 *)
(*   open   fitz.open succeeds                                             *)
(*   pfail  the pages (1-based) whose get_pixmap / pix.save raises         *)

dpi_for(total) == IF total < LargeDocPages THEN FullDpi ELSE LowDpi
zoom_for(total) == IF total < LargeDocPages THEN FullZoom10 ELSE LowZoom10
batch_size_for(total) == IF total > LargeDocPages THEN SmallBatch ELSE LargeBatch

BatchStarts(total) ==
  {b \in 0..(total - 1) : b % batch_size_for(total) = 0}
BatchLen(total, start_page) ==
  Min(start_page + batch_size_for(total), total) - start_page
BatchAllOk(total) ==
  [b \in BatchStarts(total) |-> BatchLen(total, b)]
\* a batch raises within its first MaxPages pages, or not at all
BatchOutcomes(total) ==
  {f \in [BatchStarts(total) -> (0..MaxPages) \cup {SmallBatch, LargeBatch}] :
     \A b \in BatchStarts(total) :
        f[b] <= BatchLen(total, b) /\ (f[b] > MaxPages => f[b] = BatchLen(total, b))}

FallbackOutcomes(total) ==
  {[fitz |-> FALSE, open |-> TRUE, pfail |-> {}],
   [fitz |-> TRUE, open |-> FALSE, pfail |-> {}]}
  \cup {[fitz |-> TRUE, open |-> TRUE, pfail |-> S] :
            S \in SUBSET (1..Min(total, MaxPages))}
FallbackUnused == [fitz |-> TRUE, open |-> TRUE, pfail |-> {}]

Outcomes(total) ==
  {[imp |-> p[1], meta |-> p[2], batch |-> BatchAllOk(total)] @@ f :
     p \in {<<FALSE, TRUE>>, <<TRUE, FALSE>>}, f \in FallbackOutcomes(total)}
  \cup {[imp |-> TRUE, meta |-> TRUE, batch |-> b] @@ FallbackUnused :
          b \in BatchOutcomes(total)}

\* the except clauses around the pdf2image run: an ImportError, or any
\* exception that escapes the per-batch handler, hands over to PyMuPDF
falls_back_on_import_error_only(oc) == ~oc.imp

falls_back(oc) == ~oc.imp \/ ~oc.meta

BatchRaised(oc, total) ==
  \E b \in BatchStarts(total) : oc.batch[b] < BatchLen(total, b)

----------------------------------------------------------------------------
(* convert_pdf_to_images_pymupdf *)

\* image.save / pix.save of the images imgs (page number -> image, page
\* numbers within first..last): the file at each page's path is replaced
\* by that page's image
RECURSIVE write_pages(_, _, _)
write_pages(imgs, first, last) ==
  IF first > last THEN EmptyDict
  ELSE IF first = last
  THEN IF first \in DOMAIN imgs THEN page_path(first) :> imgs[first] ELSE EmptyDict
  ELSE LET mid == (first + last) \div 2
       IN  write_pages(imgs, first, mid) @@ write_pages(imgs, mid + 1, last)

SavePages(fs, imgs, first, last) == write_pages(imgs, first, last) @@ fs

\* the page loop: the pages whose conversion does not raise are appended
\* in page order and their images written; the others are skipped
pymupdf_pages(pdf, oc, zoom10, st) ==
  LET total == PageCount(pdf)
      pix(n) == FitzPixmap(pdf, n, zoom10)
      converted(page) == page.page_number \notin oc.pfail
  IN  [pages |-> st.pages \o
                 SelectSeq([n \in 1..total |-> RasterPage(n, pix(n))], converted),
       files |-> SavePages(st.files, [n \in (1..total) \ oc.pfail |-> pix(n)], 1, total)]

FitzTitle(metadata) ==
  LET t == Get(metadata, "title", "PDF Tutorial")
  IN  IF t = "" THEN "PDF Tutorial" ELSE t

convert_pdf_to_images_pymupdf(pdf, oc, fs) ==
  IF ~oc.fitz THEN Raise(ImportErrorFitz, fs)
  ELSE IF ~oc.open THEN Raise(FitzOpenError, fs)
  ELSE
    LET metadata == FitzMetadata(pdf)
        zoom10 == zoom_for(PageCount(pdf))
        st == pymupdf_pages(pdf, oc, zoom10, [pages |-> <<>>, files |-> fs])
    IN  Return(recount([pages |-> st.pages,
                        total_pages |-> PageCount(pdf),
                        title |-> FitzTitle(metadata),
                        metadata |-> metadata]), st.files)

----------------------------------------------------------------------------
(* convert_pdf_to_images *)

\* one batch: the first k images of the batch are saved and their pages
\* appended (k is the batch's size unless convert_from_path or image.save raised)
save_batch(pdf, dpi, start_page, k, st) ==
  LET image(page_num) == Pdf2Image(pdf, page_num, dpi)
  IN  [pages |-> st.pages \o
                 [i \in 1..k |-> RasterPage(start_page + i, image(start_page + i))],
       files |-> SavePages(st.files,
                          [n \in (start_page + 1)..(start_page + k) |-> image(n)],
                          start_page + 1, start_page + k)]

RECURSIVE pdf2image_batches(_, _, _, _, _)
pdf2image_batches(pdf, oc, total, start_page, st) ==
  IF start_page >= total THEN st
  ELSE pdf2image_batches(pdf, oc, total, start_page + batch_size_for(total),
         save_batch(pdf, dpi_for(total), start_page, oc.batch[start_page], st))

convert_pdf_to_images(pdf, oc, fs) ==
  IF falls_back(oc)
  THEN convert_pdf_to_images_pymupdf(pdf, oc, fs)
  ELSE
    LET metadata == PlumberMetadata(pdf)
        total == PageCount(pdf)
        st == pdf2image_batches(pdf, oc, total, 0, [pages |-> <<>>, files |-> fs])
    IN  Return(recount([pages |-> st.pages,
                        total_pages |-> total,
                        title |-> Get(metadata, "Title", "PDF Tutorial"),
                        metadata |-> metadata]), st.files)

----------------------------------------------------------------------------
(* The rasterizers that report progress into session['conversion_progress'] *)

ReturnP(content, fs, prog) ==
  [exc |-> FALSE, content |-> content, files |-> fs, progress |-> prog]
RaiseP(cause, fs, prog) ==
  [exc |-> TRUE, cause |-> cause, files |-> fs, progress |-> prog]

\* the progress written by the page loop: at every 50th page, from page 0
RECURSIVE page_loop_progress(_, _, _)
page_loop_progress(total, i, prog) ==
  IF i >= total THEN prog
  ELSE page_loop_progress(total, i + 50,
         [prog EXCEPT
            !.percent = 25 + (i * 60) \div total,
            !.message = <<"Converting page ", ToString(i + 1), "/",
                          ToString(total)>>])

pymupdf_pages_with_progress(pdf, oc, zoom10, st) ==
  LET done == pymupdf_pages(pdf, oc, zoom10, [pages |-> st.pages, files |-> st.files])
  IN  [pages |-> done.pages, files |-> done.files,
       progress |-> page_loop_progress(PageCount(pdf), 0, st.progress)]

convert_pdf_to_images_pymupdf_with_progress(pdf, oc, fs, prog) ==
  IF ~oc.fitz THEN RaiseP(ImportErrorFitz, fs, prog)
  ELSE IF ~oc.open THEN RaiseP(FitzOpenError, fs, prog)
  ELSE
    LET metadata == FitzMetadata(pdf)
        total == PageCount(pdf)
        prog25 == [prog EXCEPT
                     !.percent = 25,
                     !.message = <<"Converting ", ToString(total),
                                   " pages using fallback method...">>]
        st == pymupdf_pages_with_progress(pdf, oc, zoom_for(total),
                [pages |-> <<>>, files |-> fs, progress |-> prog25])
        content == recount([pages |-> st.pages,
                            total_pages |-> total,
                            title |-> FitzTitle(metadata),
                            metadata |-> metadata])
        prog85 == [st.progress EXCEPT
                     !.percent = 85,
                     !.message = <<"Successfully converted ",
                                   ToString(content.total_pages), " pages">>]
    IN  ReturnP(content, st.files, prog85)

RECURSIVE pdf2image_batches_with_progress(_, _, _, _, _)
pdf2image_batches_with_progress(pdf, oc, total, start_page, st) ==
  IF start_page >= total THEN st
  ELSE
    LET batch_size == batch_size_for(total)
        end_page == Min(start_page + batch_size, total)
        prog == [st.progress EXCEPT
                   !.percent = 20 + (start_page * 65) \div total,
                   !.message = <<"Converting pages ", ToString(start_page + 1),
                                 "-", ToString(end_page), "...">>,
                   !.details = <<"Batch ", ToString(start_page \div batch_size + 1),
                                 " of ",
                                 ToString((total + batch_size - 1) \div batch_size)>>]
        done == save_batch(pdf, dpi_for(total), start_page, oc.batch[start_page],
                           [pages |-> st.pages, files |-> st.files])
    IN  pdf2image_batches_with_progress(pdf, oc, total, start_page + batch_size,
          [pages |-> done.pages, files |-> done.files, progress |-> prog])

extract_pdf_content_with_progress(pdf, oc, fs, prog) ==
  IF falls_back(oc)
  THEN convert_pdf_to_images_pymupdf_with_progress(pdf, oc, fs, prog)
  ELSE
    LET metadata == PlumberMetadata(pdf)
        total == PageCount(pdf)
        prog20 == [prog EXCEPT
                     !.percent = 20,
                     !.message = <<"Converting ", ToString(total),
                                   " pages to images...">>,
                     !.details = <<"Processing ", ToString(total), " pages">>]
        st == pdf2image_batches_with_progress(pdf, oc, total, 0,
                [pages |-> <<>>, files |-> fs, progress |-> prog20])
        content == recount([pages |-> st.pages,
                            total_pages |-> total,
                            title |-> Get(metadata, "Title", "PDF Tutorial"),
                            metadata |-> metadata])
        prog85 == [st.progress EXCEPT
                     !.percent = 85,
                     !.message = <<"Successfully converted ",
                                   ToString(content.total_pages), " pages">>]
    IN  ReturnP(content, st.files, prog85)

----------------------------------------------------------------------------
(* extract_pdf_content_pymupdf: the structured extractor.                  *)
(* A page of a PDF given to it is                                          *)
(*   [text   : what page.get_text() returns,                               *)
(*    lines  : the lines of page.get_text("dict"), each [text, y],         *)
(*    images : the embedded images, each [kind, y] with kind "rgb",        *)
(*             "cmyk" (pix.n >= 5, skipped) or "bad" (Pixmap raises),      *)
(*    fault  : the call that raises on this page: "none", "get_text",      *)
(*             "get_text_dict" or "get_images"]                            *)

Digit(d) == <<"0", "1", "2", "3", "4", "5", "6", "7", "8", "9">>[d + 1]
RECURSIVE Digits(_)
Digits(n) == IF n < 10 THEN <<Digit(n)>> ELSE Append(Digits(n \div 10), Digit(n % 10))

TextFailed(n) ==
  <<"[", "T", "e", "x", "t", " ", "e", "x", "t", "r", "a", "c", "t", "i", "o", "n", " ", "f", "a", "i", "l", "e", "d", " ", "f", "o", "r", " ", "p", "a", "g", "e", " ">>
  \o Digits(n) \o <<"]">>

img_path_of(n, img_idx) ==
  EXTRACTED_FOLDER \o "/page_" \o ToString(n) \o "_img_" \o ToString(img_idx) \o ".png"

\* list.sort(key=position): a stable insertion sort
RECURSIVE insert_by_position(_, _)
insert_by_position(sorted, e) ==
  IF sorted = <<>> THEN <<e>>
  ELSE IF sorted[Len(sorted)].position <= e.position THEN Append(sorted, e)
  ELSE Append(insert_by_position(SubSeq(sorted, 1, Len(sorted) - 1), e),
              sorted[Len(sorted)])

RECURSIVE sort_by_position(_)
sort_by_position(elements) ==
  IF elements = <<>> THEN <<>>
  ELSE insert_by_position(
         sort_by_position(SubSeq(elements, 1, Len(elements) - 1)),
         elements[Len(elements)])

RECURSIVE text_lines(_, _, _)
text_lines(lines, k, pc) ==
  IF k > Len(lines) THEN pc
  ELSE
    LET line == lines[k]
        text_block == [text |-> line.text,
                       bbox |-> <<0, line.y, PageRect.width, line.y + 12>>,
                       fontsize |-> 12]
    IN  IF strip(line.text) # <<>>
        THEN text_lines(lines, k + 1,
               [pc EXCEPT
                  !.structured_text = Append(@, text_block),
                  !.elements = Append(@, [type |-> "text", content |-> text_block,
                                         position |-> text_block.bbox[2]])])
        ELSE text_lines(lines, k + 1, pc)

extract_text(page, n, pc) ==
  IF page.fault = "get_text" THEN [pc EXCEPT !.text = TextFailed(n)]
  ELSE
    LET pc1 == IF page.text # <<>> THEN [pc EXCEPT !.text = strip(page.text)] ELSE pc
    IN  IF page.fault = "get_text_dict" THEN [pc1 EXCEPT !.text = TextFailed(n)]
        ELSE text_lines(page.lines, 1, pc1)

RECURSIVE extract_images(_, _, _, _, _)
extract_images(pdf, page, n, img_idx, st) ==
  IF img_idx >= Len(page.images) THEN st
  ELSE
    LET img == page.images[img_idx + 1]
        img_path == img_path_of(n, img_idx)
        img_bbox == <<0, img.y, 64, img.y + 64>>
        image_data == [path |-> img_path, bbox |-> img_bbox, index |-> img_idx,
                       width |-> 64, height |-> 64]
    IN  IF img.kind = "rgb"
        THEN extract_images(pdf, page, n, img_idx + 1,
               [pc |-> [st.pc EXCEPT
                          !.images = Append(@, image_data),
                          !.elements = Append(@, [type |-> "image",
                                                   content |-> image_data,
                                                   position |-> img_bbox[2]])],
                files |-> Put(st.files, img_path,
                              [pix |-> <<pdf.tag, n, img_idx>>,
                               width |-> 64, height |-> 64])])
        ELSE extract_images(pdf, page, n, img_idx + 1, st)

\* one iteration of the page loop, up to the sort: the page's content and the files
extract_page(pdf, i, fs) ==
  LET page == pdf.pages[i + 1]
      pc0 == [page_number |-> i + 1, text |-> <<>>, structured_text |-> <<>>,
              images |-> <<>>, tables |-> <<>>, bbox |-> PageRect,
              elements |-> <<>>]
      pc1 == extract_text(page, i + 1, pc0)
      st == IF page.fault = "get_images" THEN [pc |-> pc1, files |-> fs]
            ELSE extract_images(pdf, page, i + 1, 0, [pc |-> pc1, files |-> fs])
  IN  [pc |-> [st.pc EXCEPT !.elements = sort_by_position(@)], files |-> st.files]

RECURSIVE structured_pages(_, _, _)
structured_pages(pdf, i, st) ==
  IF i >= PageCount(pdf) THEN st
  ELSE
    LET got == extract_page(pdf, i, st.files)
    IN  structured_pages(pdf, i + 1,
          [pages |-> IF ~is_blank_page(got.pc) THEN Append(st.pages, got.pc)
                     ELSE st.pages,
           files |-> got.files])

\* (the kept pages left with their original numbers)
renumber_skipped(pages) == pages

renumber(pages) == [idx \in 1..Len(pages) |-> [pages[idx] EXCEPT !.page_number = idx]]

extract_pdf_content_pymupdf(pdf, oc, fs) ==
  IF ~oc.fitz THEN Raise(ImportErrorFitz, fs)
  ELSE IF ~oc.open THEN Raise(FitzOpenError, fs)
  ELSE
    LET metadata == FitzMetadata(pdf)
        st == structured_pages(pdf, 0, [pages |-> <<>>, files |-> fs])
    IN  Return(recount([pages |-> renumber(st.pages),
                        total_pages |-> PageCount(pdf),
                        title |-> FitzTitle(metadata),
                        metadata |-> metadata]), st.files)

----------------------------------------------------------------------------
(* The page-data store: save_pdf_data / load_pdf_data over DATA_FOLDER     *)

None == [None |-> TRUE]

\* hashlib.md5(s.encode()).hexdigest(): a fixed function of the string,
\* taken to be free of collisions
md5_hexdigest(s) == "md5(" \o s \o ")"

data_path(pdf_id) == DATA_FOLDER \o "/" \o pdf_id \o ".pkl"

\* pickle.dump / pickle.load of a content dict: every dict, list and leaf
\* object is written as a tagged node and read back from it
pickle_obj(v) == [t |-> "obj", v |-> v]
pickle_dict(d) == [t |-> "dict", items |-> [k \in DOMAIN d |-> pickle_obj(d[k])]]
pickle_dump_without_metadata(content) ==
  [t |-> "dict",
   items |-> [pages |-> [t |-> "list",
                         items |-> [i \in 1..Len(content.pages) |->
                                      pickle_dict(content.pages[i])]],
              total_pages |-> pickle_obj(content.total_pages),
              title |-> pickle_obj(content.title),
              metadata |-> pickle_dict(EmptyDict)]]

pickle_dump(content) ==
  [t |-> "dict",
   items |-> [pages |-> [t |-> "list",
                         items |-> [i \in 1..Len(content.pages) |->
                                      pickle_dict(content.pages[i])]],
              total_pages |-> pickle_obj(content.total_pages),
              title |-> pickle_obj(content.title),
              metadata |-> pickle_dict(content.metadata)]]

unpickle_dict(node) == [k \in DOMAIN node.items |-> node.items[k].v]
pickle_load(blob) ==
  [pages |-> [i \in 1..Len(blob.items.pages.items) |->
                unpickle_dict(blob.items.pages.items[i])],
   total_pages |-> blob.items.total_pages.v,
   title |-> blob.items.title.v,
   metadata |-> unpickle_dict(blob.items.metadata)]

pdf_id_of_content(pdf_content, filename) ==
  md5_hexdigest(filename \o "_" \o ToString(Len(pdf_content.pages)) \o "_"
                \o ToString(pdf_content.total_pages) \o "_" \o pdf_content.title)

pdf_id_of(pdf_content, filename) ==
  md5_hexdigest(filename \o "_" \o ToString(Len(pdf_content.pages)) \o "_"
                \o ToString(pdf_content.total_pages))

save_pdf_data(pdf_content, filename, st) ==
  LET pdf_id == pdf_id_of(pdf_content, filename)
  IN  [pdf_id |-> pdf_id,
       store |-> Put(st, data_path(pdf_id), pickle_dump(pdf_content))]

load_pdf_data(pdf_id, st) ==
  IF data_path(pdf_id) \notin DOMAIN st THEN None
  ELSE pickle_load(st[data_path(pdf_id)])

----------------------------------------------------------------------------
(* Inputs *)

\* the contents a PDF can have: 0 has no Info dictionary (no title),
\* 1 is titled "Doc 1"
Tags == {0, 1}

\* an uploaded PDF: only its tag and page count matter to the rasterizers
PlainPage == [text |-> <<>>, lines |-> <<>>, images |-> <<>>, fault |-> "none"]
RasterPdf(tag, n) == [tag |-> tag, pages |-> Rep(PlainPage, n)]
UploadPdfs == {RasterPdf(tag, n) : tag \in Tags, n \in UploadPageCounts}

\* the rasterizers are called directly on PDFs of up to MaxPages pages, on
\* a PDF of more than one batch and on PDFs at and above the page count
\* where resolution and batch size change
DirectPageCounts ==
  (1..MaxPages) \cup {LargeBatch + 1, LargeDocPages, LargeDocPages + 1}
DirectPdfs == {RasterPdf(tag, n) : tag \in Tags, n \in DirectPageCounts}

----------------------------------------------------------------------------
(* The web handlers.  An upload request runs in steps, one per stretch of  *)
(* upload_file between two points where another request can see the        *)
(* session: req[s].pc is where the request of session s stands.            *)

Init ==
  /\ store = EmptyDict
  /\ files = EmptyDict
  /\ uploads = EmptyDict
  /\ session = [s \in Sessions |-> EmptyDict]
  /\ req = [s \in Sessions |-> [pc |-> "idle"]]
  /\ started = 0
  /\ call = [fn |-> "none"]
  /\ saves = <<>>

\* upload_file, lines 556-561: the record a new upload starts with
UploadingProgress ==
  [status |-> "uploading", percent |-> 0,
   message |-> <<"Uploading file...">>, details |-> <<>>]

ErrorProgress(cause) ==
  [status |-> "error", percent |-> 0, message |-> <<"Error: ", cause>>,
   details |-> <<>>]

\* upload_file, lines 550-565: progress record created, file saved
UploadBegin(s, filename, pdf) ==
  /\ req[s].pc = "idle"
  /\ started < MaxUploads
  /\ started' = started + 1
  /\ session' = [session EXCEPT ![s] =
       Put(@, "conversion_progress", UploadingProgress)]
  /\ uploads' = Put(uploads, UPLOAD_FOLDER \o "/" \o filename, pdf)
  /\ req' = [req EXCEPT ![s] = [pc |-> "uploaded", filename |-> filename]]
  /\ UNCHANGED <<store, files, call, saves>>

\* UploadProcessing gone wrong: the session is pointed at the upload
\* before it has been extracted
UploadProcessingEager(s) ==
  /\ req[s].pc = "uploaded"
  /\ session' = [session EXCEPT ![s] =
       Put(Put(@, "current_pdf", req[s].filename), "conversion_progress",
           [@.conversion_progress EXCEPT
              !.status = "processing", !.percent = 10,
              !.message = <<"File uploaded, starting conversion...">>])]
  /\ req' = [req EXCEPT ![s].pc = "processing"]
  /\ UNCHANGED <<store, files, uploads, started, call, saves>>

\* upload_file, lines 567-571
UploadProcessing(s) ==
  /\ req[s].pc = "uploaded"
  /\ session' = [session EXCEPT ![s].conversion_progress =
       [@ EXCEPT !.status = "processing", !.percent = 10,
                 !.message = <<"File uploaded, starting conversion...">>]]
  /\ req' = [req EXCEPT ![s].pc = "processing"]
  /\ UNCHANGED <<store, files, uploads, started, call, saves>>

\* upload_file, lines 573-580 and, when the extraction raises, 609-621
UploadExtract(s) ==
  /\ req[s].pc = "processing"
  /\ LET pdf == uploads[UPLOAD_FOLDER \o "/" \o req[s].filename]
     IN  \E oc \in Outcomes(PageCount(pdf)) :
           LET r == extract_pdf_content_with_progress(
                      pdf, oc, files, session[s].conversion_progress)
           IN  /\ files' = r.files
               /\ IF r.exc
                  THEN /\ session' = [session EXCEPT ![s] =
                            Put(@, "conversion_progress", ErrorProgress(r.cause))]
                       /\ req' = [req EXCEPT ![s] = [pc |-> "idle"]]
                  ELSE /\ session' = [session EXCEPT
                                        ![s].conversion_progress = r.progress]
                       /\ req' = [req EXCEPT ![s] =
                            [pc |-> "extracted", filename |-> req[s].filename,
                             pdf_content |-> r.content]]
  /\ UNCHANGED <<store, uploads, started, call, saves>>

\* UploadSaving gone wrong: 'saving' reported at 80 percent, below the 85
\* the extraction has reported
UploadSavingAt80(s) ==
  /\ req[s].pc = "extracted"
  /\ session' = [session EXCEPT ![s].conversion_progress =
       [@ EXCEPT !.status = "saving", !.percent = 80,
                 !.message = <<"Saving processed data...">>]]
  /\ req' = [req EXCEPT ![s].pc = "saving"]
  /\ UNCHANGED <<store, files, uploads, started, call, saves>>

\* upload_file, lines 582-586
UploadSaving(s) ==
  /\ req[s].pc = "extracted"
  /\ session' = [session EXCEPT ![s].conversion_progress =
       [@ EXCEPT !.status = "saving", !.percent = 90,
                 !.message = <<"Saving processed data...">>]]
  /\ req' = [req EXCEPT ![s].pc = "saving"]
  /\ UNCHANGED <<store, files, uploads, started, call, saves>>

\* upload_file, lines 588-607
UploadSave(s) ==
  /\ req[s].pc = "saving"
  /\ LET pdf_content == req[s].pdf_content
         saved == save_pdf_data(pdf_content, req[s].filename, store)
     IN  /\ store' = saved.store
         /\ session' = [session EXCEPT ![s] =
              [current_pdf |-> req[s].filename,
               pdf_id |-> saved.pdf_id,
               current_page |-> 1,
               pdf_metadata |-> [title |-> pdf_content.title,
                                 total_pages |-> pdf_content.total_pages],
               conversion_progress |->
                 [@.conversion_progress EXCEPT
                    !.status = "complete", !.percent = 100,
                    !.message = <<"Conversion complete!">>]] @@ @]
  /\ req' = [req EXCEPT ![s] = [pc |-> "idle"]]
  /\ UNCHANGED <<files, uploads, started, call, saves>>

\* get_page, lines 639-680: the page is served and becomes the current page
GetPage(s, page_num) ==
  /\ "pdf_id" \in DOMAIN session[s]
  /\ LET pdf_content == load_pdf_data(session[s].pdf_id, store)
     IN  /\ pdf_content # None
         /\ ~(page_num < 1 \/ page_num > pdf_content.total_pages)
         /\ session' = [session EXCEPT ![s] = Put(@, "current_page", page_num)]
  /\ UNCHANGED <<store, files, uploads, req, started, call, saves>>

Next ==
  \E s \in Sessions :
    \* sessions, file names and contents are interchangeable until the first
    \* upload: it is s1's, of a.pdf, with content 0
    \/ \E filename \in Filenames, pdf \in UploadPdfs :
         /\ started = 0 => (s = "s1" /\ filename = "a.pdf" /\ pdf.tag = 0)
         /\ UploadBegin(s, filename, pdf)
    \/ UploadProcessing(s)
    \/ UploadExtract(s)
    \/ UploadSaving(s)
    \/ UploadSave(s)
    \/ \E page_num \in 0..(Cardinality(UploadPageCounts) + 1) :
         GetPage(s, page_num)

Spec == Init /\ [][Next]_vars

----------------------------------------------------------------------------
(* The routines called directly, as a caller outside the web handlers      *)
(* (a test, a script) calls them: one extraction or filter call, or a      *)
(* series of saves, per run.  The routines that report progress are called *)
(* where upload_file calls them: with the progress record of lines 556-571 *)
(* in the session.                                                         *)

InitLib ==
  /\ store = EmptyDict
  /\ files = EmptyDict
  /\ uploads = EmptyDict
  /\ session = [s \in Sessions |->
       [conversion_progress |->
          [status |-> "processing", percent |-> 10,
           message |-> <<"File uploaded, starting conversion...">>,
           details |-> <<>>]]]
  /\ req = [s \in Sessions |-> [pc |-> "idle"]]
  /\ started = 0
  /\ call = [fn |-> "none"]
  /\ saves = <<>>

Fresh == call.fn = "none" /\ saves = <<>>

\* the result as the caller sees it
Outcome(r) == [k \in DOMAIN r \ {"files", "progress"} |-> r[k]]

\* page texts: n characters between l leading and r trailing blanks
Texts ==
  {Rep(" ", l) \o Rep("x", n) \o Rep(" ", r) :
     l \in 0..1, n \in 0..MaxTextLen, r \in 0..1}

SomeBlock == [text |-> <<"x">>, bbox |-> <<0, 0, 10, 10>>, fontsize |-> 12]
SomeImage == [path |-> img_path_of(1, 0), bbox |-> <<0, 0, 64, 64>>, index |-> 0,
              width |-> 64, height |-> 64]
SomeTable == [rows |-> <<<<"x">>>>, bbox |-> <<0, 0, 10, 10>>, index |-> 0]

FilterInputs ==
  {[page_number |-> 1, text |-> t, structured_text |-> st, images |-> im,
    tables |-> tb, elements |-> el] :
     t \in Texts, st \in {<<>>, <<SomeBlock>>}, im \in {<<>>, <<SomeImage>>},
     tb \in {<<>>, <<SomeTable>>},
     el \in {<<>>, <<[type |-> "text", content |-> SomeBlock, position |-> 0]>>}}
  \cup {[page_number |-> 1, text |-> t] : t \in Texts}

CallIsBlankPage(page_content) ==
  /\ Fresh
  /\ call' = [fn |-> "is_blank_page", page_content |-> page_content,
              ret |-> is_blank_page(page_content)]
  /\ UNCHANGED <<store, files, uploads, session, req, started, saves>>

CallConvertPdfToImages(pdf, oc) ==
  /\ Fresh
  /\ LET r == convert_pdf_to_images(pdf, oc, files)
     IN  /\ files' = r.files
         /\ call' = [fn |-> "convert_pdf_to_images", pdf |-> pdf, oc |-> oc,
                     ret |-> Outcome(r)]
  /\ UNCHANGED <<store, uploads, session, req, started, saves>>

CallConvertPdfToImagesPymupdf(pdf, oc) ==
  /\ Fresh
  /\ LET r == convert_pdf_to_images_pymupdf(pdf, oc, files)
     IN  /\ files' = r.files
         /\ call' = [fn |-> "convert_pdf_to_images_pymupdf", pdf |-> pdf, oc |-> oc,
                     ret |-> Outcome(r)]
  /\ UNCHANGED <<store, uploads, session, req, started, saves>>

CallExtractPdfContentWithProgress(s, pdf, oc) ==
  /\ Fresh
  /\ LET r == extract_pdf_content_with_progress(
                pdf, oc, files, session[s].conversion_progress)
     IN  /\ files' = r.files
         /\ session' = [session EXCEPT ![s].conversion_progress = r.progress]
         /\ call' = [fn |-> "extract_pdf_content_with_progress", pdf |-> pdf,
                     oc |-> oc, ret |-> Outcome(r)]
  /\ UNCHANGED <<store, uploads, req, started, saves>>

CallConvertPdfToImagesPymupdfWithProgress(s, pdf, oc) ==
  /\ Fresh
  /\ LET r == convert_pdf_to_images_pymupdf_with_progress(
                pdf, oc, files, session[s].conversion_progress)
     IN  /\ files' = r.files
         /\ session' = [session EXCEPT ![s].conversion_progress = r.progress]
         /\ call' = [fn |-> "convert_pdf_to_images_pymupdf_with_progress",
                     pdf |-> pdf, oc |-> oc, ret |-> Outcome(r)]
  /\ UNCHANGED <<store, uploads, req, started, saves>>

\* the pages given to the structured extractor
StructPages ==
  LET line(y) == [text |-> <<"H", "i">>, y |-> y]
      img(kind, y) == [kind |-> kind, y |-> y]
      page(t, ls, is, f) == [text |-> t, lines |-> ls, images |-> is, fault |-> f]
  IN  {page(<<>>, <<>>, <<>>, "none"),
       page(<<"7", " ">>, <<>>, <<>>, "none"),
       page(Rep("x", BlankTextLimit), <<>>, <<>>, "none"),
       page(Rep("x", BlankTextLimit + 1), <<>>, <<>>, "none"),
       page(<<"H", "i">>, <<line(50), [text |-> <<" ">>, y |-> 70]>>,
            <<img("rgb", 10), img("cmyk", 20), img("bad", 30)>>, "none"),
       page(<<"H", "i">>, <<line(50)>>, <<>>, "get_text"),
       page(<<"H", "i">>, <<line(50)>>, <<img("rgb", 10)>>, "get_images")}

RECURSIVE SeqsUpTo(_, _)
SeqsUpTo(S, n) ==
  IF n = 0 THEN {<<>>}
  ELSE LET shorter == SeqsUpTo(S, n - 1)
       IN  shorter \cup {Append(q, x) : q \in {p \in shorter : Len(p) = n - 1}, x \in S}

StructPdfs ==
  {[tag |-> tag, pages |-> pages] :
     tag \in Tags, pages \in SeqsUpTo(StructPages, MaxStructPages) \ {<<>>}}

CallExtractPdfContentPymupdf(pdf, oc) ==
  /\ Fresh
  /\ LET r == extract_pdf_content_pymupdf(pdf, oc, files)
     IN  /\ files' = r.files
         /\ call' = [fn |-> "extract_pdf_content_pymupdf", pdf |-> pdf, oc |-> oc,
                     ret |-> Outcome(r)]
  /\ UNCHANGED <<store, uploads, session, req, started, saves>>

\* the Documents given to save_pdf_data: what a rasterizer returns
SaveDocs ==
  {r.content :
     r \in {x \in UNION {{convert_pdf_to_images_pymupdf(pdf, oc, EmptyDict) :
                            oc \in FallbackOutcomes(PageCount(pdf))} :
                         pdf \in {RasterPdf(tag, n) : tag \in Tags, n \in 1..MaxPages}} :
            ~x.exc}}

CallSavePdfData(pdf_content, filename) ==
  /\ call.fn \in {"none", "save_pdf_data"}
  /\ Len(saves) < MaxSaves
  /\ LET saved == save_pdf_data(pdf_content, filename, store)
     IN  /\ store' = saved.store
         /\ call' = [fn |-> "save_pdf_data", pdf_content |-> pdf_content,
                     filename |-> filename, ret |-> saved.pdf_id]
         /\ saves' = Append(saves, [pdf_content |-> pdf_content,
                                    filename |-> filename, pdf_id |-> saved.pdf_id])
  /\ UNCHANGED <<files, uploads, session, req, started>>

NextLib ==
  \/ /\ Fresh
     /\ \/ \E page_content \in FilterInputs : CallIsBlankPage(page_content)
        \/ \E pdf \in DirectPdfs : \E oc \in Outcomes(PageCount(pdf)) :
             \/ CallConvertPdfToImages(pdf, oc)
             \/ CallConvertPdfToImagesPymupdf(pdf, oc)
             \/ \E s \in Sessions :
                  \/ CallExtractPdfContentWithProgress(s, pdf, oc)
                  \/ CallConvertPdfToImagesPymupdfWithProgress(s, pdf, oc)
        \/ \E pdf \in StructPdfs, oc \in FallbackOutcomes(0) :
             CallExtractPdfContentPymupdf(pdf, oc)
  \/ \E pdf_content \in SaveDocs, filename \in Filenames :
       CallSavePdfData(pdf_content, filename)

SpecLib == InitLib /\ [][NextLib]_vars

----------------------------------------------------------------------------
(* Claims about the extraction routines, checked under SpecLib             *)

ExtractionRoutines ==
  {"convert_pdf_to_images", "convert_pdf_to_images_pymupdf",
   "extract_pdf_content_with_progress",
   "convert_pdf_to_images_pymupdf_with_progress", "extract_pdf_content_pymupdf"}

Returned == call.fn \in ExtractionRoutines /\ ~call.ret.exc

\* C1: every Document an extraction routine returns has total_pages equal
\* to the length of its pages list, whichever pages or batches failed or
\* were filtered out.
C1_TotalPagesIsLength ==
  Returned => call.ret.content.total_pages = Len(call.ret.content.pages)

\* a two-batch PDF whose first batch raised at once: one page of 101 is returned
C1_Witness ==
  /\ call.fn = "extract_pdf_content_with_progress"
  /\ ~call.ret.exc
  /\ PageCount(call.pdf) = LargeBatch + 1
  /\ call.oc.imp /\ call.oc.meta /\ call.oc.batch[0] = 0
  /\ call.ret.content.total_pages = 1

\* C2: in every Document an extraction routine returns, the page at list
\* index i (0-based) has page_number i+1, also when pages or batches failed.
C2_PageNumbersContiguous ==
  Returned =>
    \A i \in 1..Len(call.ret.content.pages) :
      call.ret.content.pages[i].page_number = i

\* C3: is_blank_page(page) is true exactly when the page has no layout
\* elements, no structured-text blocks, no images, no tables and its plain
\* text (surrounding whitespace trimmed, as the filter measures it) is
\* empty or shorter than 20 characters.
C3_BlankIffNoContentAndShortText ==
  call.fn = "is_blank_page" =>
    LET page == call.page_content
    IN  call.ret <=>
          /\ Get(page, "elements", <<>>) = <<>>
          /\ Get(page, "structured_text", <<>>) = <<>>
          /\ Get(page, "images", <<>>) = <<>>
          /\ Get(page, "tables", <<>>) = <<>>
          /\ Len(strip(Get(page, "text", <<>>))) < 20

\* the content the structured extractor builds for input page i (1-based)
Extracted(pdf, i) == extract_page(pdf, i - 1, EmptyDict).pc
KeptPages(pdf) == {i \in 1..PageCount(pdf) : ~is_blank_page(Extracted(pdf, i))}
\* the input page that is the j-th kept one
KeptPage(pdf, j) ==
  CHOOSE i \in KeptPages(pdf) : Cardinality({h \in KeptPages(pdf) : h <= i}) = j

\* C4: a structured-mode run returns exactly the non-blank input pages, in
\* their original order, renumbered 1..k, with total_pages = k.
C4_NonBlankPagesRenumbered ==
  (call.fn = "extract_pdf_content_pymupdf" /\ ~call.ret.exc) =>
    LET out == call.ret.content
        k == Cardinality(KeptPages(call.pdf))
    IN  /\ out.total_pages = k
        /\ Len(out.pages) = k
        /\ \A j \in 1..Len(out.pages) :
             out.pages[j] =
               [Extracted(call.pdf, KeptPage(call.pdf, j)) EXCEPT !.page_number = j]

\* three pages, the second blank: two pages returned, the third numbered 2
C4_Witness ==
  /\ call.fn = "extract_pdf_content_pymupdf"
  /\ ~call.ret.exc
  /\ PageCount(call.pdf) = 3
  /\ KeptPages(call.pdf) = {1, 3}
  /\ call.ret.content.total_pages = 2
  /\ call.ret.content.pages[2].page_number = 2
  /\ call.ret.content.pages[2].text = Extracted(call.pdf, 3).text
  /\ Extracted(call.pdf, 3).text # Extracted(call.pdf, 1).text

FallbackRoutines ==
  {"convert_pdf_to_images", "extract_pdf_content_with_progress"}

\* what PyMuPDF returns for the call's PDF
PymupdfOutput == convert_pdf_to_images_pymupdf(call.pdf, call.oc, EmptyDict).content

----------------------------------------------------------------------------
(* Claims about the store, checked under SpecLib                           *)

----------------------------------------------------------------------------
(* Claims about the upload handler, checked under Spec                     *)

PrimaryCauses == {ImportErrorPdf2Image, PlumberError}
FallbackCauses == {ImportErrorFitz, FitzOpenError}

Progress(s) == session[s].conversion_progress
Failed(s) ==
  "conversion_progress" \in DOMAIN session[s] /\ Progress(s).status = "error"

\* C6: when both backends raise, the error message recorded in the progress
\* record names the cause of the pdf2image failure and the cause of the
\* PyMuPDF failure.
C6_ErrorNamesBothCauses ==
  \A s \in Sessions :
    Failed(s) =>
      /\ Range(Progress(s).message) \cap PrimaryCauses # {}
      /\ Range(Progress(s).message) \cap FallbackCauses # {}

\* the session's reference to its loaded document
Ref(s) == [k \in DOMAIN session[s] \ {"conversion_progress"} |-> session[s][k]]

\* C7: an upload whose extraction fails totally persists no Document and
\* leaves the session's reference to the loaded document (current_pdf,
\* pdf_id, pdf_metadata, current_page) as it was: no step of an upload
\* before its save step touches the store or the reference, and the step
\* in which the extraction fails ends the request with the progress record
\* replaced by the 'error' record.
C7_FailedUploadPersistsNothing ==
  [][\A s \in Sessions :
       /\ (req'[s] # req[s] /\ req[s].pc # "saving")
            => (store' = store /\ Ref(s)' = Ref(s))
       /\ (req[s].pc = "processing" /\ req'[s].pc = "idle")
            => /\ store' = store
               /\ Ref(s)' = Ref(s)
               /\ Progress(s)'.status = "error"
               /\ Progress(s)'.percent = 0]_vars

\* a session with a document loaded and page 2 open, whose next upload failed
C7_Witness ==
  \E s \in Sessions :
    /\ Failed(s)
    /\ "pdf_id" \in DOMAIN session[s]
    /\ session[s].current_page = 2
    /\ load_pdf_data(session[s].pdf_id, store) # None

\* what a reader of the Document stored at path p obtains: the blob and
\* the pictures in the image files its pages name
ReaderView(p) ==
  [blob |-> store[p],
   images |-> [i \in 1..Len(pickle_load(store[p]).pages) |->
                 Get(files, pickle_load(store[p]).pages[i].image_path, None).pix]]

\* the paths under which an upload named filename can be stored
PathsOf(filename) ==
  {data_path(md5_hexdigest(filename \o "_" \o ToString(n) \o "_" \o ToString(n))) :
     n \in 0..Cardinality(UploadPageCounts)}

\* C8: what a reader of a persisted Document obtains changes only through
\* a re-upload that replaces the Document under the same DocumentId: a step
\* of an upload that cannot end under that id leaves it as it is.
C8_PersistedDocumentUnchanged ==
  [][\A p \in DOMAIN store :
       ReaderView(p)' # ReaderView(p) =>
         \E s \in Sessions :
           /\ req'[s] # req[s]
           /\ "filename" \in DOMAIN req[s]
           /\ p \in PathsOf(req[s].filename)]_vars

----------------------------------------------------------------------------
(* search: case-insensitive substring search over the loaded Document.     *)
(* A text is a sequence of characters; positions are 0-based as in Python. *)

ContextChars == 50         \* characters of context on each side of a match

\* U+0130 (capital I with dot above) and U+0307 (combining dot above)
DottedI == "I+"
CombiningDot == "+"

\* str.lower() of one character: U+0130 lowers to the two characters
\* 'i' U+0307, every other character to one character
lower_char(c) ==
  CASE c = "A" -> <<"a">>
    [] c = "B" -> <<"b">>
    [] c = "T" -> <<"t">>
    [] c = DottedI -> <<"i", CombiningDot>>
    [] OTHER -> <<c>>

RECURSIVE lower(_)
lower(t) == IF t = <<>> THEN <<>> ELSE lower_char(Head(t)) \o lower(Tail(t))

\* t[a:b] for 0 <= a
slice(t, a, b) == SubSeq(t, Min(a, Len(t)) + 1, Min(b, Len(t)))

\* text[pos:pos+len(query)] == query
occurs_at(text, query, pos) ==
  /\ pos + Len(query) <= Len(text)
  /\ SubSeq(text, pos + 1, pos + Len(query)) = query

\* text.find(query, start)
find(text, query, start) ==
  LET found == {pos \in start..Len(text) : occurs_at(text, query, pos)}
  IN  IF found = {} THEN -1
      ELSE CHOOSE pos \in found : \A other \in found : pos <= other

\* where the scan goes on after a match at pos: start = pos + 1
next_start_after_match(pos, query) == pos + Len(query)

next_start(pos, query) == pos + 1

\* the while loop of lines 701-717 over one page, from position start
RECURSIVE find_matches(_, _, _, _)
find_matches(page_text, text, query, start) ==
  LET pos == find(text, query, start)
  IN  IF pos = -1 THEN <<>>
      ELSE LET context_start == IF pos - ContextChars > 0
                                THEN pos - ContextChars ELSE 0
               context_end == Min(Len(text), pos + Len(query) + ContextChars)
               context == slice(page_text, context_start, context_end)
           IN  <<[position |-> pos,
                  context |-> context,
                  highlight_start |-> pos - context_start,
                  highlight_end |-> pos - context_start + Len(query)]>>
               \o find_matches(page_text, text, query, next_start(pos, query))

\* request.args.get('q', '').strip().lower()
query_of(q) == lower(strip(q))

\* the results list of the JSON response
search(q, sess, st) ==
  LET query == query_of(q)
  IN  IF query = <<>> \/ "pdf_id" \notin DOMAIN sess THEN <<>>
      ELSE
        LET pdf_content == load_pdf_data(sess.pdf_id, st)
        IN  IF pdf_content = None THEN <<>>
            ELSE
              LET matches(page) == find_matches(page.text, lower(page.text), query, 0)
                  hit(page) == matches(page) # <<>>
                  result(page) == [page_number |-> page.page_number,
                                   matches |-> matches(page)]
                  pages == SelectSeq(pdf_content.pages, hit)
              IN  [i \in 1..Len(pages) |-> result(pages[i])]

----------------------------------------------------------------------------
(* search called on a session whose Document has text: a Document of the   *)
(* structured extractor's shape, stored with save_pdf_data.  Session s1    *)
(* has it loaded, session s2 has nothing loaded.                           *)

MaxCoreLen == 2        \* characters of a page text between its paddings
MaxQueryLen == 2       \* characters of a query

TextChars == {"a", "A", DottedI}
QueryChars == TextChars \cup {" "}

TheCatSat == <<"T", "h", "e", " ", "c", "a", "t", " ", "s", "a", "t">>

\* page texts: a core between l and r characters that match no query
SearchTexts ==
  {Rep("-", l) \o core \o Rep("-", r) :
     l \in {0, ContextChars, ContextChars + 1},
     core \in SeqsUpTo(TextChars, MaxCoreLen) \cup {Rep("a", 4), TheCatSat},
     r \in {0, ContextChars, ContextChars + 1}}

SearchQueries ==
  SeqsUpTo(QueryChars, MaxQueryLen) \cup {<<"t", "h", "e">>, <<"T", "H", "E">>}

TextPage(n, t) ==
  [page_number |-> n, text |-> t, structured_text |-> <<>>, images |-> <<>>,
   tables |-> <<>>, elements |-> <<>>]

\* one-page Documents of every text, and two-page Documents
SearchDocs ==
  {recount([pages |-> pages, total_pages |-> 0, title |-> "PDF Tutorial",
            metadata |-> FitzMetadata(RasterPdf(0, 0))]) :
     pages \in {<<TextPage(1, t)>> : t \in SearchTexts}
               \cup {<<TextPage(1, t), TextPage(2, <<"a", "A", "a">>)>> :
                       t \in SeqsUpTo(TextChars, MaxCoreLen)}}

InitSearch ==
  \E doc \in SearchDocs :
    LET saved == save_pdf_data(doc, "a.pdf", EmptyDict)
    IN  /\ store = saved.store
        /\ files = EmptyDict
        /\ uploads = EmptyDict
        /\ session = [s \in Sessions |->
             IF s = "s1"
             THEN [current_pdf |-> "a.pdf", pdf_id |-> saved.pdf_id,
                   current_page |-> 1,
                   pdf_metadata |-> [title |-> doc.title,
                                     total_pages |-> doc.total_pages]]
             ELSE EmptyDict]
        /\ req = [s \in Sessions |-> [pc |-> "idle"]]
        /\ started = 0
        /\ call = [fn |-> "none"]
        /\ saves = <<>>

\* search, lines 682-725, called once: the session and the store are only read
CallSearch(s, q) ==
  /\ call.fn = "none"
  /\ call' = [fn |-> "search", s |-> s, q |-> q,
              ret |-> search(q, session[s], store)]
  /\ UNCHANGED <<store, files, uploads, session, req, started, saves>>

NextSearch == \E s \in Sessions, q \in SearchQueries : CallSearch(s, q)

SpecSearch == InitSearch /\ [][NextSearch]_vars

----------------------------------------------------------------------------
(* Claims about search, checked under SpecSearch                           *)

Searched == call.fn = "search" /\ "pdf_id" \in DOMAIN session[call.s]

\* the Document the searching session has loaded
SearchedPages == load_pdf_data(session[call.s].pdf_id, store).pages

\* the positions search reports for page number n, in the order reported
Reported(n) ==
  LET of_page(result) == result.page_number = n
      results == SelectSeq(call.ret, of_page)
  IN  IF results = <<>> THEN <<>>
      ELSE [i \in 1..Len(results[1].matches) |-> results[1].matches[i].position]

\* the start positions where query occurs in text, overlapping ones included
Occurrences(text, query) ==
  {pos \in 0..Len(text) : occurs_at(text, query, pos)}

\* a sequence that lists the set S in ascending order, each member once
Ascending(q, S) ==
  /\ Range(q) = S
  /\ \A i, j \in DOMAIN q : i < j => q[i] < q[j]

\* C11: for each page of the loaded Document and each query (the query
\* as the handler scans for it: trimmed and lowercased, and non-empty), the
\* positions reported are exactly the start positions where the query
\* occurs in the lowercased page text, overlapping occurrences included,
\* each once and in ascending order; only pages with a match are listed.
C11_ReportsEveryOccurrence ==
  (Searched /\ query_of(call.q) # <<>>) =>
    /\ \A i \in 1..Len(SearchedPages) :
         Ascending(Reported(SearchedPages[i].page_number),
                   Occurrences(lower(SearchedPages[i].text), query_of(call.q)))
    /\ \A i \in 1..Len(call.ret) : call.ret[i].matches # <<>>
    /\ \A i, j \in 1..Len(call.ret) :
         i < j => call.ret[i].page_number < call.ret[j].page_number

\* query "aa" on text "aaaa": positions 0, 1, 2
C11_Witness ==
  /\ Searched
  /\ call.q = <<"a", "a">>
  /\ Len(SearchedPages) = 1
  /\ SearchedPages[1].text = Rep("a", 4)
  /\ Reported(1) = <<0, 1, 2>>

\* the matches search reports for page number n
MatchesOf(n) ==
  LET of_page(result) == result.page_number = n
      results == SelectSeq(call.ret, of_page)
  IN  IF results = <<>> THEN <<>> ELSE results[1].matches

\* C12: for every match at position pos, the context is the page text from
\* max(0, pos - 50) to at most 50 characters past the end of the match,
\* clamped to the text length; highlight_start = pos - window start,
\* highlight_end = highlight_start + len(query), 0 <= highlight_start <= 50,
\* highlight_end <= len(context), and context[highlight_start:highlight_end]
\* is the matched occurrence (equal to the query up to case).
C12_ContextWindowAndHighlight ==
  Searched =>
    \A i \in 1..Len(SearchedPages) :
      LET page == SearchedPages[i]
          query == query_of(call.q)
          matches == MatchesOf(page.page_number)
      IN  \A k \in 1..Len(matches) :
            LET m == matches[k]
                window_start == IF m.position > 50 THEN m.position - 50 ELSE 0
                window_end == Min(Len(page.text), m.position + Len(query) + 50)
            IN  /\ m.context = slice(page.text, window_start, window_end)
                /\ m.highlight_start = m.position - window_start
                /\ m.highlight_end = m.highlight_start + Len(query)
                /\ 0 <= m.highlight_start /\ m.highlight_start <= 50
                /\ m.highlight_end <= Len(m.context)
                /\ lower(slice(m.context, m.highlight_start, m.highlight_end)) = query

----------------------------------------------------------------------------
(* The handlers that answer a request of the browser: get_progress,        *)
(* get_page and search.  Their answers are kept in call.                   *)

\* get_progress, lines 777-786
IdleProgress ==
  [status |-> "idle", percent |-> 0, message |-> <<"Ready">>, details |-> <<>>]

get_progress(sess) == Get(sess, "conversion_progress", IdleProgress)

\* get_page, lines 657-666: image_path starts with 'static/', which is cut
\* off and put back behind the leading '/'
image_url_of(image_path) == "/" \o image_path

BadRequest(error) == [status |-> 400, error |-> error]

\* get_page: the response and the session it leaves
get_page(page_num, sess, st) ==
  IF "pdf_id" \notin DOMAIN sess
  THEN [response |-> BadRequest("No PDF loaded"), session |-> sess]
  ELSE
    LET pdf_content == load_pdf_data(sess.pdf_id, st)
    IN  IF pdf_content = None
        THEN [response |-> BadRequest("PDF data not found"), session |-> sess]
        ELSE IF page_num < 1 \/ page_num > pdf_content.total_pages
        THEN [response |-> BadRequest("Invalid page number"), session |-> sess]
        ELSE
          LET page_content == pdf_content.pages[page_num]
          IN  [response |->
                 [status |-> 200,
                  page |-> [page_number |-> page_content.page_number,
                            image_url |-> image_url_of(page_content.image_path),
                            width |-> page_content.width,
                            height |-> page_content.height,
                            type |-> "image"],
                  total_pages |-> pdf_content.total_pages,
                  current_page |-> page_num],
               session |-> Put(sess, "current_page", page_num)]

ReadProgress(s) ==
  /\ call' = [fn |-> "get_progress", s |-> s, ret |-> get_progress(session[s])]
  /\ UNCHANGED <<store, files, uploads, session, req, started, saves>>

ReadPage(s, page_num) ==
  LET r == get_page(page_num, session[s], store)
  IN  /\ session' = [session EXCEPT ![s] = r.session]
      /\ call' = [fn |-> "get_page", s |-> s, page_num |-> page_num,
                  ret |-> r.response]
      /\ UNCHANGED <<store, files, uploads, req, started, saves>>

ReadSearch(s, q) ==
  /\ call' = [fn |-> "search", s |-> s, q |-> q,
              ret |-> search(q, session[s], store)]
  /\ UNCHANGED <<store, files, uploads, session, req, started, saves>>

\* one browser session: its uploads, and its requests in between and meanwhile
WebSessions == {"s1"}
WebQueries == {<<" ">>, <<"a">>}

\* the uploads of the session: of one file name, the first with content 0
Upload(s) ==
  \/ \E pdf \in UploadPdfs :
       /\ started = 0 => pdf.tag = 0
       /\ UploadBegin(s, "a.pdf", pdf)
  \/ UploadProcessing(s)
  \/ UploadExtract(s)
  \/ UploadSaving(s)
  \/ UploadSave(s)

NextWeb ==
  \E s \in WebSessions :
    \/ Upload(s)
    \/ ReadProgress(s)
    \/ \E page_num \in 0..(Cardinality(UploadPageCounts) + 1) : ReadPage(s, page_num)
    \/ \E q \in WebQueries : ReadSearch(s, q)

SpecWeb == Init /\ [][NextWeb]_vars

----------------------------------------------------------------------------
(* Claims about the answers of get_progress, get_page and search,          *)
(* checked under SpecWeb                                                    *)

\* the records in which one single write sets status, percent, message and
\* details: the default of get_progress (lines 780-785) and the two
\* assignments of a whole record in upload_file (lines 556-561, 610-615).
\* Every other progress update assigns to one field of the record at a
\* time and leaves details, or status and details, as an earlier update
\* set them.
WholeRecords ==
  {IdleProgress, UploadingProgress}
  \cup {ErrorProgress(cause) : cause \in {ImportErrorFitz, FitzOpenError}}

\* C13: every record a progress poll reads is the default idle record or a
\* record whose status, percent, message and details were all set by one
\* and the same progress update.
C13_PollNeverReadsTornRecord ==
  call.fn = "get_progress" => call.ret \in WholeRecords

----------------------------------------------------------------------------
(* Claim about resolution and batches, checked under SpecLib               *)

\* the batches of the loop at lines 142-143: (start_page, end_page) pairs,
\* a batch holding the pages start_page + 1 .. end_page
RECURSIVE batches(_, _)
batches(total, start_page) ==
  IF start_page >= total THEN <<>>
  ELSE <<[start_page |-> start_page,
          end_page |-> Min(start_page + batch_size_for(total), total)]>>
       \o batches(total, start_page + batch_size_for(total))

Rasterizers ==
  {"convert_pdf_to_images", "convert_pdf_to_images_pymupdf",
   "extract_pdf_content_with_progress",
   "convert_pdf_to_images_pymupdf_with_progress"}

\* the call was served by PyMuPDF
ByPymupdf ==
  \/ call.fn \in {"convert_pdf_to_images_pymupdf",
                  "convert_pdf_to_images_pymupdf_with_progress"}
  \/ falls_back(call.oc)

\* C14: the rasterizer uses the lower resolution (100 DPI, zoom 1.0) exactly
\* when the page count exceeds 200 and the full resolution (150 DPI, zoom
\* 1.5) for every page count up to and including 200; the batches are
\* consecutive, disjoint, cover pages 1..N in order, each of 1 to 100 pages.
C14_ResolutionAndBatches ==
  (call.fn \in Rasterizers /\ ~call.ret.exc) =>
    LET N == PageCount(call.pdf)
        dpi == IF N > 200 THEN 100 ELSE 150
        zoom10 == IF N > 200 THEN 10 ELSE 15
        b == batches(N, 0)
    IN  /\ \A i \in 1..Len(call.ret.content.pages) :
             LET page == call.ret.content.pages[i]
                 image == IF ByPymupdf
                          THEN FitzPixmap(call.pdf, page.page_number, zoom10)
                          ELSE Pdf2Image(call.pdf, page.page_number, dpi)
             IN  page.width = image.width /\ page.height = image.height
        /\ Len(b) >= 1
        /\ b[1].start_page = 0
        /\ b[Len(b)].end_page = N
        /\ \A i \in 1..Len(b) :
             /\ b[i].end_page - b[i].start_page >= 1
             /\ b[i].end_page - b[i].start_page <= 100
             /\ i < Len(b) => b[i + 1].start_page = b[i].end_page

\* C15: for a session with a loaded Document, get_page(n) with
\* 1 <= n <= total_pages returns the page whose page_number is n and sets
\* current_page to n; for any other n it returns an error and leaves
\* current_page unchanged.
C15_GetPageReturnsPageN ==
  [][(call'.fn = "get_page" /\ req' = req) =>
       LET s == call'.s
           n == call'.page_num
       IN  ("pdf_id" \in DOMAIN session[s]
            /\ load_pdf_data(session[s].pdf_id, store) # None) =>
             IF 1 <= n /\ n <= load_pdf_data(session[s].pdf_id, store).total_pages
             THEN /\ call'.ret.status = 200
                  /\ call'.ret.page.page_number = n
                  /\ session'[s].current_page = n
             ELSE /\ call'.ret.status = 400
                  /\ session'[s].current_page = session[s].current_page]_vars

----------------------------------------------------------------------------
(* The uploads of one browser session, each request running to its end:    *)
(* the handler has no point where it waits for another request, so a       *)
(* request that has begun keeps taking its steps.                          *)

\* the steps of an upload request that has begun
UploadRun(s) ==
  \/ UploadProcessing(s)
  \/ UploadExtract(s)
  \/ UploadSaving(s)
  \/ UploadSave(s)

NextUpload == \E s \in WebSessions : Upload(s)

SpecUpload ==
  Init /\ [][NextUpload]_vars /\ \A s \in WebSessions : WF_vars(UploadRun(s))

\* the request of session s is under way
Running(s) == req[s].pc # "idle"

C17_SearchFindsNothingAfterUploads ==
  /\ \A p \in DOMAIN store :
       \A i \in 1..Len(pickle_load(store[p]).pages) :
         /\ pickle_load(store[p]).pages[i].type = "image"
         /\ pickle_load(store[p]).pages[i].text = <<>>
  /\ call.fn = "search" => call.ret = <<>>

\* a search for "a" in a session whose second upload left two pages loaded
C17_Witness ==
  /\ call.fn = "search"
  /\ call.q = <<"a">>
  /\ started = 2
  /\ "pdf_id" \in DOMAIN session[call.s]
  /\ load_pdf_data(session[call.s].pdf_id, store) # None
  /\ load_pdf_data(session[call.s].pdf_id, store).total_pages = 2

====
